---- MODULE Spec2Model ----
(***************************************************************************)
(* A model of download.py: the three-stage pipeline (_get_article,         *)
(* _get_tables, _get_coordinates) and its batch driver                     *)
(* _process_all_pmcids, run repeatedly against one output directory.       *)
(*                                                                         *)
(* The output directory is the persistent state (article files, table      *)
(* files, table_ids.json, per-article and merged coordinates files); the   *)
(* locals of the running call are the transient state.  The remote host is *)
(* the environment: a request fails or answers with a page drawn from a    *)
(* small set of pages.                                                     *)
(***************************************************************************)
EXTENDS Integers, Sequences, FiniteSets, TLC

\* ------------------------------------------------------------------ bounds
\* Most coordinate rows one table page yields.
MaxRows == 1
\* Ceiling of the counter of successful requests per destination path.
MaxCount == 2

\* ------------------------------------------------------------------ inputs
\* The article identifiers of the corpus (the scenario of the spec).
PMCIDs == {100, 200}

\* The table-wrap ids that occur in article pages.
TableIds == {"T1313", "T8216", "T1"}

\* hashlib.md5(name.encode("UTF-8")).hexdigest()[:6] on TableIds (the real
\* digests: "T1313" and "T8216" share their first six hex characters).
_short_hash(name) ==
    CASE name = "T1313" -> "92b401"
      [] name = "T8216" -> "92b401"
      [] name = "T1" -> "ce499d"

\* The stems a table file can have.
Names == {_short_hash(t) : t \in TableIds}

\* The order in which tables_dir.glob("*.html") yields the stems.
NameOrder == <<"92b401", "ce499d">>

\* What _get_table_ids can find in an article page: no table, one table,
\* two tables with distinct short names, two tables with the same short name.
ArticlePages ==
    {<<>>, <<"T1">>, <<"T1313", "T1">>, <<"T1313", "T8216">>}

\* The identifier lists a run is started with: any order of any identifiers
\* of the corpus, each at most once (an identifier is unique in a run).
PmcidLists ==
    {l \in UNION {[1..n -> PMCIDs] : n \in 0..Cardinality(PMCIDs)} :
        \A i, j \in 1..Len(l) : l[i] = l[j] => i = j}

\* ------------------------------------------------------------------- files
NoArticle == [ex |-> "absent", ids |-> <<>>]
EmptyArticle == [ex |-> "empty", ids |-> <<>>]
NoTable == [ex |-> "absent", tid |-> "", rows |-> 0]
NoJson == [ex |-> FALSE, info |-> <<>>]
NoCsv == [ex |-> FALSE, rows |-> <<>>]
NoResponse == [ok |-> FALSE, ids |-> <<>>, rows |-> 0]

VARIABLES
    pc,                \* where the run is
    all_pmcids,        \* the identifier list of the run
    pmcid_idx,         \* position (1-based) of the identifier in process
    all_coords_files,  \* per-article files collected by the run (by pmcid)
    n_errors,          \* the error counter of the run
    all_table_ids,     \* _get_tables: the ids found in the article file
    id_info,           \* _get_tables: short name -> table id, so far
    tix,               \* _get_tables: position (1-based) in all_table_ids
    response,          \* the response between session.get and write_bytes
    article,           \* pmcid_{p}_article.html
    tables_dir,        \* pmcid_{p}_tables/ exists
    tables,            \* pmcid_{p}_tables/{name}.html
    table_ids_json,    \* pmcid_{p}_tables/table_ids.json
    coords,            \* pmcid_{p}_coordinates.csv
    merged,            \* all_coordinates.csv
    attempted,         \* history: positions handed to _process_pmcid
    outcome,           \* history: how each of them ended, "ok" or "failed"
    requested,         \* history: positions of all_table_ids requested by
                       \* the current (or last) call of _get_tables
    okArticle,         \* history: successful requests per article path
    okTable,           \* history: successful requests per table path
    run_requests,      \* history: requests of the run per destination path
    last_net,          \* history: the last network event of the run,
                       \* "none", "sleep" (a _sleep()) or "request"
    at_start           \* history: what the run found when it started

run_vars == <<pc, all_pmcids, pmcid_idx, all_coords_files, n_errors>>
local_vars == <<all_table_ids, id_info, tix, response>>
disk_vars == <<article, tables_dir, tables, table_ids_json, coords, merged>>
hist_vars == <<attempted, outcome, requested, okArticle, okTable,
               run_requests, last_net, at_start>>
vars == <<run_vars, local_vars, disk_vars, hist_vars>>

\* The destination paths of one identifier: the article file and the
\* table files.
Paths == Names \cup {"article"}

\* No request has been sent by the run.
NoRequests == [p \in PMCIDs |-> [n \in Paths |-> 0]]

\* session.get(url) is called for destination path n of identifier p.
Requested(p, n) ==
    /\ run_requests' = [run_requests EXCEPT
                          ![p][n] = IF @ < MaxCount THEN @ + 1 ELSE @]
    /\ last_net' = "request"

\* Mutant of is_file: the test for an existing file is lost.
is_file_never(f) == FALSE

\* pathlib.Path.is_file on a destination path: the file is there, whatever
\* it holds.
is_file(f) == f.ex # "absent"

\* Every request the code would send for identifier p is a cache hit: the
\* article file is there (line 41) and so is the file of every table id it
\* holds (line 77).
FullyCached(p) ==
    /\ is_file(article[p])
    /\ \A i \in 1..Len(article[p].ids) :
          is_file(tables[p][_short_hash(article[p].ids[i])])

\* No run has started.
NoStart == [cached |-> {}, rerun |-> FALSE]

\* The identifier in process.
pmcid == all_pmcids[pmcid_idx]

\* No run is in progress.
AtRest == pc \in {"idle", "done", "merge_error", "interrupted"}

Init ==
    /\ pc = "idle"
    /\ all_pmcids = <<>>
    /\ pmcid_idx = 1
    /\ all_coords_files = <<>>
    /\ n_errors = 0
    /\ all_table_ids = <<>>
    /\ id_info = <<>>
    /\ tix = 0
    /\ response = NoResponse
    /\ article = [p \in PMCIDs |-> NoArticle]
    /\ tables_dir = [p \in PMCIDs |-> FALSE]
    /\ tables = [p \in PMCIDs |-> [n \in Names |-> NoTable]]
    /\ table_ids_json = [p \in PMCIDs |-> NoJson]
    /\ coords = [p \in PMCIDs |-> NoCsv]
    /\ merged = NoCsv
    /\ attempted = <<>>
    /\ outcome = <<>>
    /\ requested = {}
    /\ okArticle = [p \in PMCIDs |-> 0]
    /\ okTable = [p \in PMCIDs |-> [n \in Names |-> 0]]
    /\ run_requests = NoRequests
    /\ last_net = "none"
    /\ at_start = NoStart

\* --------------------------------------------------------- the batch driver
\* _process_all_pmcids is called: lines 131-137.
StartRun(list) ==
    /\ AtRest
    /\ pc' = "loop"
    /\ all_pmcids' = list
    /\ pmcid_idx' = 1
    /\ all_coords_files' = <<>>
    /\ n_errors' = 0
    /\ attempted' = <<>>
    /\ outcome' = <<>>
    /\ requested' = {}
    /\ run_requests' = NoRequests
    /\ last_net' = "none"
    /\ at_start' = [cached |-> {p \in PMCIDs : FullyCached(p)},
                    rerun |-> pc = "done" /\ list = all_pmcids]
    /\ UNCHANGED <<local_vars, disk_vars, okArticle, okTable>>

\* The for loop takes the next identifier and calls _process_pmcid.
ProcessPmcid ==
    /\ pc = "loop"
    /\ pmcid_idx <= Len(all_pmcids)
    /\ pc' = "art"
    /\ attempted' = Append(attempted, pmcid_idx)
    /\ UNCHANGED <<all_pmcids, pmcid_idx, all_coords_files, n_errors,
                   local_vars, disk_vars, outcome, requested, okArticle,
                   okTable, run_requests, last_net, at_start>>

\* Mutant of Except: no try/except around _process_pmcid, the exception
\* leaves _process_all_pmcids.
ExceptAborts ==
    /\ n_errors' = n_errors
    /\ pmcid_idx' = pmcid_idx
    /\ pc' = "merge_error"
    /\ all_table_ids' = <<>>
    /\ id_info' = <<>>
    /\ tix' = 0
    /\ response' = NoResponse
    /\ outcome' = Append(outcome, "failed")
    /\ UNCHANGED <<all_pmcids, all_coords_files, attempted>>

\* Mutant of Except: the except clause does not count the error.
ExceptUncounted ==
    /\ n_errors' = n_errors
    /\ pmcid_idx' = pmcid_idx + 1
    /\ pc' = "loop"
    /\ all_table_ids' = <<>>
    /\ id_info' = <<>>
    /\ tix' = 0
    /\ response' = NoResponse
    /\ outcome' = Append(outcome, "failed")
    /\ UNCHANGED <<all_pmcids, all_coords_files, attempted>>

\* An Exception leaves _process_pmcid: the except clause counts it and the
\* loop goes on with the next identifier.
Except ==
    /\ n_errors' = n_errors + 1
    /\ pmcid_idx' = pmcid_idx + 1
    /\ pc' = "loop"
    /\ all_table_ids' = <<>>
    /\ id_info' = <<>>
    /\ tix' = 0
    /\ response' = NoResponse
    /\ outcome' = Append(outcome, "failed")
    /\ UNCHANGED <<all_pmcids, all_coords_files, attempted>>

\* ----------------------------------------------------------- _get_article
\* Mutant of GetArticleCached: an article file that is there is fetched
\* again.
GetArticleRefetch ==
    /\ pc = "art"
    /\ is_file(article[pmcid])
    /\ last_net' = "sleep"
    /\ pc' = "art_get"
    /\ UNCHANGED <<all_pmcids, pmcid_idx, all_coords_files, n_errors,
                   local_vars, disk_vars, attempted, outcome, requested,
                   okArticle, okTable, run_requests, at_start>>

\* Lines 41-42: the article file is there, return it.
GetArticleCached ==
    /\ pc = "art"
    /\ is_file(article[pmcid])
    /\ pc' = "tabs"
    /\ UNCHANGED <<all_pmcids, pmcid_idx, all_coords_files, n_errors,
                   local_vars, disk_vars, hist_vars>>

\* Lines 43-45: the article file is not there, _sleep().
GetArticleSleep ==
    /\ pc = "art"
    /\ ~is_file(article[pmcid])
    /\ last_net' = "sleep"
    /\ pc' = "art_get"
    /\ UNCHANGED <<all_pmcids, pmcid_idx, all_coords_files, n_errors,
                   local_vars, disk_vars, attempted, outcome, requested,
                   okArticle, okTable, run_requests, at_start>>

\* Mutant of GetArticleFails: the failure is swallowed in _get_article and
\* _process_pmcid goes on with the tables.
GetArticleFailsGoesOn ==
    /\ pc = "art_get"
    /\ Requested(pmcid, "article")
    /\ pc' = "tabs"
    /\ UNCHANGED <<all_pmcids, pmcid_idx, all_coords_files, n_errors,
                   local_vars, disk_vars, attempted, outcome, requested,
                   okArticle, okTable, at_start>>

\* Lines 46-47: session.get or raise_for_status raises.
GetArticleFails ==
    /\ pc = "art_get"
    /\ Requested(pmcid, "article")
    /\ Except
    /\ UNCHANGED <<disk_vars, requested, okArticle, okTable, at_start>>

\* Lines 46-47: the host answers with an article page.
GetArticleOk(page) ==
    /\ pc = "art_get"
    /\ Requested(pmcid, "article")
    /\ response' = [ok |-> TRUE, ids |-> page, rows |-> 0]
    /\ okArticle' = [okArticle EXCEPT
                       ![pmcid] = IF @ < MaxCount THEN @ + 1 ELSE @]
    /\ pc' = "art_open"
    /\ UNCHANGED <<all_pmcids, pmcid_idx, all_coords_files, n_errors,
                   all_table_ids, id_info, tix, disk_vars, attempted,
                   outcome, requested, okTable, at_start>>

\* Line 48, write_bytes: open(mode="wb") creates the file, empty.
GetArticleOpen ==
    /\ pc = "art_open"
    /\ article' = [article EXCEPT ![pmcid] = EmptyArticle]
    /\ pc' = "art_write"
    /\ UNCHANGED <<all_pmcids, pmcid_idx, all_coords_files, n_errors,
                   local_vars, tables_dir, tables, table_ids_json, coords,
                   merged, hist_vars>>

\* Line 48, write_bytes: the response bytes are written; line 49.
GetArticleWrite ==
    /\ pc = "art_write"
    /\ article' = [article EXCEPT
                     ![pmcid] = [ex |-> "full", ids |-> response.ids]]
    /\ response' = NoResponse
    /\ pc' = "tabs"
    /\ UNCHANGED <<all_pmcids, pmcid_idx, all_coords_files, n_errors,
                   all_table_ids, id_info, tix, tables_dir, tables,
                   table_ids_json, coords, merged, hist_vars>>

\* ------------------------------------------------------------ _get_tables
\* id_info[table_name] = table_id on a dict.
SetItem(d, k, v) ==
    [x \in DOMAIN d \cup {k} |-> IF x = k THEN v ELSE d[x]]

\* The table id and the short name of the loop's iteration.
table_id == all_table_ids[tix]
table_name == _short_hash(table_id)

\* Lines 69-73: the ids of the article file, mkdir, an empty id_info.
GetTablesStart ==
    /\ pc = "tabs"
    /\ all_table_ids' = article[pmcid].ids
    /\ tables_dir' = [tables_dir EXCEPT ![pmcid] = TRUE]
    /\ id_info' = <<>>
    /\ tix' = 1
    /\ requested' = {}
    /\ pc' = "tab_loop"
    /\ UNCHANGED <<all_pmcids, pmcid_idx, all_coords_files, n_errors,
                   response, article, tables, table_ids_json, coords,
                   merged, attempted, outcome, okArticle, okTable,
                   run_requests, last_net, at_start>>

\* Mutant of GetTableCached: a table file that is there is fetched again.
GetTableRefetch ==
    /\ pc = "tab_loop"
    /\ tix <= Len(all_table_ids)
    /\ tables[pmcid][table_name].ex # "absent"
    /\ id_info' = SetItem(id_info, table_name, table_id)
    /\ last_net' = "sleep"
    /\ pc' = "tab_get"
    /\ UNCHANGED <<all_pmcids, pmcid_idx, all_coords_files, n_errors,
                   all_table_ids, tix, response, disk_vars, attempted,
                   outcome, requested, okArticle, okTable, run_requests,
                   at_start>>

\* Lines 74-79: the table file is there, continue.
GetTableCached ==
    /\ pc = "tab_loop"
    /\ tix <= Len(all_table_ids)
    /\ is_file(tables[pmcid][table_name])
    /\ id_info' = SetItem(id_info, table_name, table_id)
    /\ tix' = tix + 1
    /\ UNCHANGED <<run_vars, all_table_ids, response, disk_vars, hist_vars>>

\* Mutant of GetTableSleep: the table request is sent without _sleep().
GetTableNoSleep ==
    /\ pc = "tab_loop"
    /\ tix <= Len(all_table_ids)
    /\ ~is_file(tables[pmcid][table_name])
    /\ id_info' = SetItem(id_info, table_name, table_id)
    /\ pc' = "tab_get"
    /\ UNCHANGED <<all_pmcids, pmcid_idx, all_coords_files, n_errors,
                   all_table_ids, tix, response, disk_vars, hist_vars>>

\* Lines 74-82: the table file is not there, _sleep().
GetTableSleep ==
    /\ pc = "tab_loop"
    /\ tix <= Len(all_table_ids)
    /\ ~is_file(tables[pmcid][table_name])
    /\ id_info' = SetItem(id_info, table_name, table_id)
    /\ last_net' = "sleep"
    /\ pc' = "tab_get"
    /\ UNCHANGED <<all_pmcids, pmcid_idx, all_coords_files, n_errors,
                   all_table_ids, tix, response, disk_vars, attempted,
                   outcome, requested, okArticle, okTable, run_requests,
                   at_start>>

\* Mutant of GetTableFails: a failed table request is tried again.
GetTableRetries ==
    /\ pc = "tab_get"
    /\ requested' = requested \cup {tix}
    /\ Requested(pmcid, table_name)
    /\ pc' = "tab_loop"
    /\ UNCHANGED <<all_pmcids, pmcid_idx, all_coords_files, n_errors,
                   local_vars, disk_vars, attempted, outcome, okArticle,
                   okTable, at_start>>

\* Lines 83-84: session.get or raise_for_status raises; nothing in
\* _get_tables catches it.
GetTableFails ==
    /\ pc = "tab_get"
    /\ requested' = requested \cup {tix}
    /\ Requested(pmcid, table_name)
    /\ Except
    /\ UNCHANGED <<disk_vars, okArticle, okTable, at_start>>

\* Lines 83-84: the host answers with the page of table_id.
GetTableOk(rows) ==
    /\ pc = "tab_get"
    /\ requested' = requested \cup {tix}
    /\ Requested(pmcid, table_name)
    /\ response' = [ok |-> TRUE, ids |-> <<>>, rows |-> rows]
    /\ okTable' = [okTable EXCEPT
                     ![pmcid][table_name] = IF @ < MaxCount THEN @ + 1 ELSE @]
    /\ pc' = "tab_open"
    /\ UNCHANGED <<all_pmcids, pmcid_idx, all_coords_files, n_errors,
                   all_table_ids, id_info, tix, disk_vars, attempted,
                   outcome, okArticle, at_start>>

\* Mutant of GetTableOpen: the table file is created in one tables
\* directory that all identifiers share.
GetTableOpenShared ==
    /\ pc = "tab_open"
    /\ tables' = [p \in PMCIDs |-> [tables[p] EXCEPT ![table_name] =
                    [ex |-> "empty", tid |-> table_id, rows |-> 0]]]
    /\ pc' = "tab_write"
    /\ UNCHANGED <<all_pmcids, pmcid_idx, all_coords_files, n_errors,
                   local_vars, article, tables_dir, table_ids_json, coords,
                   merged, hist_vars>>

\* Line 85, write_bytes: open(mode="wb") creates the file, empty.
GetTableOpen ==
    /\ pc = "tab_open"
    /\ tables' = [tables EXCEPT ![pmcid][table_name] =
                    [ex |-> "empty", tid |-> table_id, rows |-> 0]]
    /\ pc' = "tab_write"
    /\ UNCHANGED <<all_pmcids, pmcid_idx, all_coords_files, n_errors,
                   local_vars, article, tables_dir, table_ids_json, coords,
                   merged, hist_vars>>

\* Line 85, write_bytes: the response bytes are written; next iteration.
GetTableWrite ==
    /\ pc = "tab_write"
    /\ tables' = [tables EXCEPT ![pmcid][table_name] =
                    [ex |-> "full", tid |-> table_id, rows |-> response.rows]]
    /\ response' = NoResponse
    /\ tix' = tix + 1
    /\ pc' = "tab_loop"
    /\ UNCHANGED <<all_pmcids, pmcid_idx, all_coords_files, n_errors,
                   all_table_ids, id_info, article, tables_dir,
                   table_ids_json, coords, merged, hist_vars>>

\* Lines 86-88: the loop is over, id_info is written to table_ids.json.
WriteTableIds ==
    /\ pc = "tab_loop"
    /\ tix > Len(all_table_ids)
    /\ table_ids_json' = [table_ids_json EXCEPT
                            ![pmcid] = [ex |-> TRUE, info |-> id_info]]
    /\ all_table_ids' = <<>>
    /\ id_info' = <<>>
    /\ tix' = 0
    /\ pc' = "coords"
    /\ UNCHANGED <<all_pmcids, pmcid_idx, all_coords_files, n_errors,
                   response, article, tables_dir, tables, coords, merged,
                   hist_vars>>

\* ------------------------------------------------------- _get_coordinates
\* The stems tables_dir.glob("*.html") yields for article p, in order.
Glob(p) == SelectSeq(NameOrder, LAMBDA n : is_file(tables[p][n]))

\* Lines 100-107 for one table file f read under the label tid: read_html
\* or the coordinate detection raises on a page with no coordinate table
\* (and on an empty file) and the table is skipped; else each row of the
\* page, tagged with the label and the pmcid.  xyz names the coordinates:
\* the k-th triple of the page of table f.tid.
TableCoords(p, tid, f) ==
    IF f.ex # "full" \/ f.rows = 0
    THEN <<>>
    ELSE [k \in 1..f.rows |->
            [pmcid |-> p, table_id |-> tid, xyz |-> <<f.tid, k>>]]

\* Mutant of AllCoordinates: the loop over the table files ends at the
\* first table that yields nothing.
RECURSIVE AllCoordinatesBreak(_, _, _)
AllCoordinatesBreak(p, info, stems) ==
    IF stems = <<>>
    THEN <<>>
    ELSE LET first == TableCoords(p, info[Head(stems)],
                                  tables[p][Head(stems)])
         IN IF first = <<>>
            THEN <<>>
            ELSE first \o AllCoordinatesBreak(p, info, Tail(stems))

\* Lines 97-111: the rows of the files of stems, labelled from the mapping.
RECURSIVE AllCoordinates(_, _, _)
AllCoordinates(p, info, stems) ==
    IF stems = <<>>
    THEN <<>>
    ELSE TableCoords(p, info[Head(stems)], tables[p][Head(stems)])
         \o AllCoordinates(p, info, Tail(stems))

\* Mutant of GetCoordinates: no else branch at lines 108-111, pd.concat of
\* an empty list raises and the identifier fails.
GetCoordinatesNeedsRows ==
    /\ pc = "coords"
    /\ LET info == table_ids_json[pmcid].info
           stems == Glob(pmcid)
       IN IF /\ table_ids_json[pmcid].ex
             /\ \A i \in 1..Len(stems) : stems[i] \in DOMAIN info
             /\ AllCoordinates(pmcid, info, stems) # <<>>
          THEN /\ coords' = [coords EXCEPT ![pmcid] =
                   [ex |-> TRUE,
                    rows |-> AllCoordinates(pmcid, info, stems)]]
               /\ all_coords_files' = Append(all_coords_files, pmcid)
               /\ pmcid_idx' = pmcid_idx + 1
               /\ pc' = "loop"
               /\ outcome' = Append(outcome, "ok")
               /\ UNCHANGED <<all_pmcids, n_errors, local_vars, attempted>>
          ELSE Except /\ UNCHANGED coords
    /\ UNCHANGED <<article, tables_dir, tables, table_ids_json, merged,
                   requested, okArticle, okTable, run_requests, last_net,
                   at_start>>

\* Mutant of GetCoordinates: the per-article dataset is appended to the
\* file a former run left instead of replacing it.
GetCoordinatesAppend ==
    /\ pc = "coords"
    /\ LET info == table_ids_json[pmcid].info
           stems == Glob(pmcid)
       IN IF table_ids_json[pmcid].ex
             /\ \A i \in 1..Len(stems) : stems[i] \in DOMAIN info
          THEN /\ coords' = [coords EXCEPT ![pmcid] =
                   [ex |-> TRUE,
                    rows |-> coords[pmcid].rows
                             \o AllCoordinates(pmcid, info, stems)]]
               /\ all_coords_files' = Append(all_coords_files, pmcid)
               /\ pmcid_idx' = pmcid_idx + 1
               /\ pc' = "loop"
               /\ outcome' = Append(outcome, "ok")
               /\ UNCHANGED <<all_pmcids, n_errors, local_vars, attempted>>
          ELSE Except /\ UNCHANGED coords
    /\ UNCHANGED <<article, tables_dir, tables, table_ids_json, merged,
                   requested, okArticle, okTable, run_requests, last_net,
                   at_start>>

\* Lines 94-115: table_ids.json is read back and the per-article dataset
\* is written; all_table_ids[table_file.stem] raises KeyError on a stem the
\* mapping does not hold.  Lines 140-142: the file joins all_coords_files.
GetCoordinates ==
    /\ pc = "coords"
    /\ LET info == table_ids_json[pmcid].info
           stems == Glob(pmcid)
       IN IF table_ids_json[pmcid].ex
             /\ \A i \in 1..Len(stems) : stems[i] \in DOMAIN info
          THEN /\ coords' = [coords EXCEPT ![pmcid] =
                   [ex |-> TRUE,
                    rows |-> AllCoordinates(pmcid, info, stems)]]
               /\ all_coords_files' = Append(all_coords_files, pmcid)
               /\ pmcid_idx' = pmcid_idx + 1
               /\ pc' = "loop"
               /\ outcome' = Append(outcome, "ok")
               /\ UNCHANGED <<all_pmcids, n_errors, local_vars, attempted>>
          ELSE Except /\ UNCHANGED coords
    /\ UNCHANGED <<article, tables_dir, tables, table_ids_json, merged,
                   requested, okArticle, okTable, run_requests, last_net,
                   at_start>>

\* ------------------------------------------------------------- the merge
\* Lines 150-152 and 154: the collected files read back and concatenated
\* (to_csv writes one line per row and read_csv reads one row per line).
RECURSIVE Concat(_)
Concat(files) ==
    IF files = <<>>
    THEN <<>>
    ELSE coords[Head(files)].rows \o Concat(Tail(files))

\* Every per-article file of the output directory, in identifier order.
RECURSIVE AllCsv(_)
AllCsv(ps) ==
    IF ps = {}
    THEN <<>>
    ELSE LET p == CHOOSE x \in ps : \A y \in ps : x <= y
         IN (IF coords[p].ex THEN <<p>> ELSE <<>>) \o AllCsv(ps \ {p})

\* Mutant of MergeRaises: with nothing to concatenate an empty merged file
\* is written.
MergeWritesEmpty ==
    /\ pc = "loop"
    /\ pmcid_idx > Len(all_pmcids)
    /\ all_coords_files = <<>>
    /\ merged' = [ex |-> TRUE, rows |-> <<>>]
    /\ pc' = "done"
    /\ UNCHANGED <<all_pmcids, pmcid_idx, all_coords_files, n_errors,
                   local_vars, article, tables_dir, tables, table_ids_json,
                   coords, hist_vars>>

\* Mutant of Merge: the merge reads every pmcid_*_coordinates.csv of the
\* output directory instead of the files the run collected.
MergeGlob ==
    /\ pc = "loop"
    /\ pmcid_idx > Len(all_pmcids)
    /\ all_coords_files # <<>>
    /\ merged' = [ex |-> TRUE, rows |-> Concat(AllCsv(PMCIDs))]
    /\ pc' = "done"
    /\ UNCHANGED <<all_pmcids, pmcid_idx, all_coords_files, n_errors,
                   local_vars, article, tables_dir, tables, table_ids_json,
                   coords, hist_vars>>

\* Line 154: pd.concat of an empty list raises ValueError; the exception
\* leaves _process_all_pmcids before line 163.
MergeRaises ==
    /\ pc = "loop"
    /\ pmcid_idx > Len(all_pmcids)
    /\ all_coords_files = <<>>
    /\ pc' = "merge_error"
    /\ UNCHANGED <<all_pmcids, pmcid_idx, all_coords_files, n_errors,
                   local_vars, disk_vars, hist_vars>>

\* Line 157: the success count of the report.
n_successes == Len(all_pmcids) - n_errors

\* Lines 150-165: all_coordinates.csv is written.
Merge ==
    /\ pc = "loop"
    /\ pmcid_idx > Len(all_pmcids)
    /\ all_coords_files # <<>>
    /\ merged' = [ex |-> TRUE, rows |-> Concat(all_coords_files)]
    /\ pc' = "done"
    /\ UNCHANGED <<all_pmcids, pmcid_idx, all_coords_files, n_errors,
                   local_vars, article, tables_dir, tables, table_ids_json,
                   coords, hist_vars>>

\* -------------------------------------------------------- the environment
\* The process is killed (a signal, a power cut) inside write_bytes, after
\* open() and before the bytes are written: its memory is lost, the output
\* directory stays as it is.  (A kill at another point of the fetch stages
\* leaves the directory as a failed request at that point leaves it.)
Interrupt ==
    /\ pc \in {"art_write", "tab_write"}
    /\ pc' = "interrupted"
    /\ all_pmcids' = <<>>
    /\ pmcid_idx' = 1
    /\ all_coords_files' = <<>>
    /\ n_errors' = 0
    /\ all_table_ids' = <<>>
    /\ id_info' = <<>>
    /\ tix' = 0
    /\ response' = NoResponse
    /\ attempted' = <<>>
    /\ outcome' = <<>>
    /\ requested' = {}
    /\ run_requests' = NoRequests
    /\ last_net' = "none"
    /\ at_start' = NoStart
    /\ UNCHANGED <<disk_vars, okArticle, okTable>>

\* Line 46: the host accepts the connection and never answers.
\* session.get(url) is called without a timeout argument and requests then
\* waits without limit, so the call does not return and does not raise.
GetArticleHangs ==
    /\ pc = "art_get"
    /\ Requested(pmcid, "article")
    /\ pc' = "art_hang"
    /\ UNCHANGED <<all_pmcids, pmcid_idx, all_coords_files, n_errors,
                   local_vars, disk_vars, attempted, outcome, requested,
                   okArticle, okTable, at_start>>

\* Line 83: the same for a table page.
GetTableHangs ==
    /\ pc = "tab_get"
    /\ requested' = requested \cup {tix}
    /\ Requested(pmcid, table_name)
    /\ pc' = "tab_hang"
    /\ UNCHANGED <<all_pmcids, pmcid_idx, all_coords_files, n_errors,
                   local_vars, disk_vars, attempted, outcome, okArticle,
                   okTable, at_start>>

\* Lines 94-96: reading table_ids.json raises (an I/O error).
GetCoordinatesRaises ==
    /\ pc = "coords"
    /\ Except
    /\ UNCHANGED <<disk_vars, requested, okArticle, okTable, run_requests,
                   last_net, at_start>>

\* ------------------------------------------------------ the specifications
Next ==
    \/ \E list \in PmcidLists : StartRun(list)
    \/ ProcessPmcid
    \/ GetArticleCached
    \/ GetArticleSleep
    \/ GetArticleFails
    \/ \E page \in ArticlePages : GetArticleOk(page)
    \/ GetArticleOpen
    \/ GetArticleWrite
    \/ GetTablesStart
    \/ GetTableCached
    \/ GetTableSleep
    \/ GetTableFails
    \/ \E rows \in 0..MaxRows : GetTableOk(rows)
    \/ GetTableOpen
    \/ GetTableWrite
    \/ WriteTableIds
    \/ GetCoordinates
    \/ MergeRaises
    \/ Merge

\* Runs in which only the remote host fails.
Spec == Init /\ [][Next]_vars

NextEnv ==
    \/ Next
    \/ Interrupt
    \/ GetCoordinatesRaises

\* Runs in which the process can also be killed and the disk can fail.
SpecEnv == Init /\ [][NextEnv]_vars

NextHang ==
    \/ NextEnv
    \/ GetArticleHangs
    \/ GetTableHangs

\* Runs in which the remote host can also stay silent.
SpecHang == Init /\ [][NextHang]_vars

\* The script is run again and again on one identifier list and one output
\* directory; only the remote host fails.
NextLive ==
    \/ \E list \in PmcidLists : pc = "idle" /\ StartRun(list)
    \/ pc # "idle" /\ StartRun(all_pmcids)
    \/ ProcessPmcid
    \/ GetArticleCached
    \/ GetArticleSleep
    \/ GetArticleFails
    \/ \E page \in ArticlePages : GetArticleOk(page)
    \/ GetArticleOpen
    \/ GetArticleWrite
    \/ GetTablesStart
    \/ GetTableCached
    \/ GetTableSleep
    \/ GetTableFails
    \/ \E rows \in 0..MaxRows : GetTableOk(rows)
    \/ GetTableOpen
    \/ GetTableWrite
    \/ WriteTableIds
    \/ GetCoordinates
    \/ MergeRaises
    \/ Merge

\* The program goes on running and is started again when it has ended
\* (WF); a request that is sent in infinitely many runs is answered with a
\* page in one of them (SF on the two successful requests).
SpecLive ==
    /\ Init
    /\ [][NextLive]_vars
    /\ WF_vars(NextLive)
    /\ SF_vars(\E page \in ArticlePages : GetArticleOk(page))
    /\ SF_vars(\E rows \in 0..MaxRows : GetTableOk(rows))

TypeOK ==
    /\ pc \in {"idle", "loop", "art", "art_get", "art_open", "art_write",
               "tabs", "tab_loop", "tab_get", "tab_open", "tab_write",
               "coords", "done", "merge_error", "interrupted", "art_hang",
               "tab_hang"}
    /\ all_pmcids \in PmcidLists
    /\ pmcid_idx \in 1..(Len(all_pmcids) + 1)
    /\ n_errors \in 0..Len(all_pmcids)
    /\ \A p \in PMCIDs : article[p].ex \in {"absent", "empty", "full"}

\* ================================================================ claims
\* A destination file is there.
Exists(f) == f.ex # "absent"

\* The run is inside _process_pmcid.
InProcess ==
    pc \in {"art", "art_get", "art_open", "art_write", "tabs", "tab_loop",
            "tab_get", "tab_open", "tab_write", "coords"}

\* The run is inside the loop of _get_tables.
InTableLoop == pc \in {"tab_loop", "tab_get", "tab_open", "tab_write"}

\* The step raises an exception inside _process_pmcid: a request that does
\* not yield a response, or _get_coordinates ending without its file.
ExceptionRaised ==
    \/ pc = "art_get" /\ pc' # "art_open"
    \/ pc = "tab_get" /\ pc' # "tab_open"
    \/ pc = "coords" /\ all_coords_files' = all_coords_files

\* ---------------------------------------------------------------------- C1
C1_AttemptsInOrder ==
    /\ attempted = [i \in 1..Len(attempted) |-> i]
    /\ pc = "loop" => Len(attempted) = pmcid_idx - 1
    /\ InProcess => Len(attempted) = pmcid_idx
    /\ pc \in {"done", "merge_error"} => Len(attempted) = Len(all_pmcids)

C1_ExceptionCounted ==
    ExceptionRaised =>
        /\ n_errors' = n_errors + 1
        /\ pmcid_idx' = pmcid_idx + 1
        /\ pc' = "loop"
        /\ all_pmcids' = all_pmcids

\* C1: in _process_all_pmcids every position of the identifier list is
\* handed to _process_pmcid exactly once and in order, whatever fails; an
\* exception raised while an identifier is processed adds one to n_errors
\* and the loop goes on with the next position; a run that ends (merged
\* file written, or the merge raising) has attempted every position.
C1_EveryIdentifierAttemptedOnce ==
    []C1_AttemptsInOrder /\ [][C1_ExceptionCounted]_vars

\* The first identifier of two failed, the second was processed and merged.
C1_Witness ==
    /\ pc = "done"
    /\ attempted = <<1, 2>>
    /\ outcome = <<"failed", "ok">>
    /\ n_errors = 1

\* ---------------------------------------------------------------------- C2
C2_AtMostOneSuccess ==
    \A p \in PMCIDs :
        /\ okArticle[p] <= 1
        /\ \A n \in Names : okTable[p][n] <= 1

C2_CacheHitIsFree ==
    /\ (pc = "art" /\ Exists(article[pmcid])) =>
           (pc' = "tabs" /\ okArticle' = okArticle)
    /\ (pc = "tab_loop" /\ tix <= Len(all_table_ids)
           /\ Exists(tables[pmcid][_short_hash(all_table_ids[tix])])) =>
           (pc' = "tab_loop" /\ tix' = tix + 1 /\ okTable' = okTable)

\* C2: when the destination file of an article page or of a table page is
\* there as the fetch is invoked, the fetch neither sleeps nor requests (it
\* goes straight on); and over any sequence of runs in which every fetch
\* returns or raises, no destination path sees a second successful request.
C2_FetchIdempotent ==
    []C2_AtMostOneSuccess /\ [][C2_CacheHitIsFree]_vars

\* _get_tables has ended for an article with tables without one request:
\* every table file was there, each from its one successful request.
C2_Witness ==
    /\ pc = "coords"
    /\ requested = {}
    /\ okArticle[pmcid] = 1
    /\ DOMAIN table_ids_json[pmcid].info # {}
    /\ \A n \in DOMAIN table_ids_json[pmcid].info : okTable[pmcid][n] = 1

\* ---------------------------------------------------------------------- C3
C3_Unchanged ==
    \A p \in PMCIDs :
        /\ Exists(article[p]) =>
               \/ article'[p] = article[p]
               \/ pc = "art_write" /\ pmcid = p /\ article[p].ex = "empty"
        /\ \A n \in Names : Exists(tables[p][n]) =>
               \/ tables'[p][n] = tables[p][n]
               \/ pc = "tab_write" /\ pmcid = p /\ tables[p][n].ex = "empty"

\* C3: an article file or a table file, once written, keeps its content in
\* every later step of every later run: no step rewrites, truncates or
\* deletes it (the only step that changes a file that is there is the write
\* that fills the file its own write_bytes has just created).
C3_FetchedDocumentImmutable == [][C3_Unchanged]_vars

\* A later run is at the article of an identifier whose article and table
\* files an earlier run wrote.
C3_Witness ==
    /\ pc = "art"
    /\ article[pmcid].ex = "full"
    /\ tables[pmcid]["ce499d"].ex = "full"
    /\ tables[pmcid]["ce499d"].rows = 1
    /\ coords[pmcid].ex

\* ---------------------------------------------------------------------- C4
\* C4: in every reachable state a destination file is absent or holds the
\* complete response (but for the file the running write_bytes is filling):
\* no partial file is left behind for a later run to take as a cache hit.
C4_NoPartialFile ==
    \A p \in PMCIDs :
        /\ article[p].ex = "empty" => (pc = "art_write" /\ pmcid = p)
        /\ \A n \in Names :
               tables[p][n].ex = "empty" => (pc = "tab_write" /\ pmcid = p)

\* ---------------------------------------------------------------------- C5
\* C5: when the loop of _get_tables ends, every table id of the article
\* has been requested by this call or has its file: a failed request for
\* one table does not keep the later tables from being fetched.
C5_OtherTablesStillFetched ==
    [][(InTableLoop /\ ~InTableLoop') =>
          \A j \in 1..Len(all_table_ids) :
              \/ j \in requested'
              \/ Exists(tables[pmcid][_short_hash(all_table_ids[j])])]_vars

\* ---------------------------------------------------------------------- C6
\* C6: when the loop of _get_tables ends, table_ids.json holds the short
\* name of every table id of the article, each mapped to an id of that
\* name, also when a request of the loop failed.
C6_MappingAlwaysWritten ==
    [][(InTableLoop /\ ~InTableLoop') =>
          LET ids == all_table_ids
              json == table_ids_json'[pmcid]
          IN /\ json.ex
             /\ DOMAIN json.info =
                    {_short_hash(ids[j]) : j \in 1..Len(ids)}
             /\ \A n \in DOMAIN json.info :
                    \E j \in 1..Len(ids) :
                        _short_hash(ids[j]) = n /\ json.info[n] = ids[j]]_vars

\* ---------------------------------------------------------------------- C7
\* Two distinct ids of the list derive the same short name.
HasCollision(ids) ==
    \E i, j \in 1..Len(ids) :
        ids[i] # ids[j] /\ _short_hash(ids[i]) = _short_hash(ids[j])

\* C7: an article two of whose table ids derive the same short name fails
\* in _get_tables: neither its mapping file nor its coordinates file is
\* ever written.
C7_CollisionFailsLoudly ==
    \A p \in PMCIDs :
        HasCollision(article[p].ids) =>
            ~table_ids_json[p].ex /\ ~coords[p].ex

\* ---------------------------------------------------------------------- C8
\* C8: whenever _get_coordinates is about to run, the mapping is a
\* bijection between its short names and the table ids of the article, and
\* every table file of the directory has a key whose value is the id the
\* file was requested for.
C8_MappingRoundTrips ==
    pc = "coords" =>
        LET info == table_ids_json[pmcid].info
            ids == article[pmcid].ids
        IN /\ {info[n] : n \in DOMAIN info} = {ids[j] : j \in 1..Len(ids)}
           /\ \A n \in Names : Exists(tables[pmcid][n]) =>
                  n \in DOMAIN info /\ info[n] = tables[pmcid][n].tid

\* ---------------------------------------------------------------------- C9
\* The rows of the per-article files of the positions 1..i that ended "ok".
RECURSIVE RowsOfSucceeded(_)
RowsOfSucceeded(i) ==
    IF i = 0
    THEN 0
    ELSE RowsOfSucceeded(i - 1)
         + (IF outcome[i] = "ok" THEN Len(coords[all_pmcids[i]].rows) ELSE 0)

\* C9: when a run has written all_coordinates.csv, its row count is the sum
\* of the row counts of the per-article files of the positions whose three
\* stages succeeded in this run, and every row is of such an identifier.
C9_MergedRowCount ==
    pc = "done" =>
        /\ merged.ex
        /\ Len(merged.rows) = RowsOfSucceeded(Len(all_pmcids))
        /\ \A k \in 1..Len(merged.rows) :
               \E i \in 1..Len(all_pmcids) :
                   outcome[i] = "ok" /\ all_pmcids[i] = merged.rows[k].pmcid

\* The merge left out the rows of the stale file of an identifier that
\* failed in this run.
C9_Witness ==
    /\ pc = "done"
    /\ outcome = <<"failed", "ok">>
    /\ coords[all_pmcids[1]].ex
    /\ Len(coords[all_pmcids[1]].rows) > 0
    /\ Len(merged.rows) > 0
    /\ all_pmcids[1] # all_pmcids[2]

\* --------------------------------------------------------------------- C10
\* No position of the run ended "ok".
NoSuccess == \A i \in 1..Len(outcome) : outcome[i] # "ok"

C10_EndsInError ==
    /\ pc = "done" => ~NoSuccess
    /\ pc = "merge_error" => NoSuccess /\ Len(outcome) = Len(all_pmcids)

C10_MergedUntouched ==
    /\ (pc = "loop" /\ pmcid_idx > Len(all_pmcids) /\ NoSuccess) =>
           (pc' = "merge_error" /\ merged' = merged)
    /\ (merged' # merged) => (pc' = "done" /\ ~NoSuccess)

\* C10: a run in which no identifier succeeded (an empty list, or every
\* identifier failed) ends in the error raised by the merge, and no step of
\* it creates or modifies all_coordinates.csv.
C10_NoSuccessIsAnError ==
    []C10_EndsInError /\ [][C10_MergedUntouched]_vars

\* Both identifiers of a run failed; the merged file of an earlier run is
\* still there.
C10_Witness ==
    /\ pc = "merge_error"
    /\ Len(all_pmcids) = 2
    /\ n_errors = 2
    /\ merged.ex
    /\ Len(merged.rows) > 0

\* C11: at every boundary between two iterations of the loop the number of
\* per-article files collected plus the error counter is the number of
\* identifiers attempted so far; at the end of a run the reported success
\* count is the number of per-article files merged and successes plus
\* errors is the length of the list; the step that counts an error writes
\* no per-article coordinates file.
C11_Boundary ==
    pc = "loop" =>
        /\ Len(all_coords_files) + n_errors = Len(attempted)
        /\ Len(attempted) = Len(outcome)
        /\ Cardinality({i \in 1..Len(outcome) : outcome[i] = "ok"})
             = Len(all_coords_files)

C11_End ==
    pc = "done" =>
        /\ Len(attempted) = Len(all_pmcids)
        /\ n_successes = Len(all_coords_files)
        /\ n_successes + n_errors = Len(all_pmcids)
        /\ merged = [ex |-> TRUE, rows |-> Concat(all_coords_files)]

C11_ErrorWritesNothing ==
    n_errors' = n_errors + 1 => coords' = coords

C11_CountsAddUp ==
    /\ [](C11_Boundary /\ C11_End)
    /\ [][C11_ErrorWritesNothing]_vars

\* The list [100, 200] where 200 fails: one success, one error, and no
\* coordinates file of 200.
C11_Witness ==
    /\ pc = "done"
    /\ all_pmcids = <<100, 200>>
    /\ outcome = <<"ok", "failed">>
    /\ n_successes = 1
    /\ n_errors = 1
    /\ ~coords[200].ex

\* C12: in a run started on a directory a former run has filled, an
\* identifier whose article file and table files were all there when the
\* run started gets no network request; the per-article rows it gives to
\* the merge are the rows the former run wrote for it; and when the run
\* repeats the list of the run before it and every identifier of the list
\* was cached at its start, the merged file it writes is the one it found.
C12_NoRequestForCached ==
    \A p \in at_start.cached : \A n \in Paths : run_requests[p][n] = 0

C12_SameRows ==
    (pc = "coords" /\ pmcid \in at_start.cached /\ coords[pmcid].ex)
        => /\ outcome' = Append(outcome, "ok")
           /\ coords'[pmcid] = coords[pmcid]

C12_SameMerged ==
    (/\ pc = "loop"
     /\ pc' = "done"
     /\ at_start.rerun
     /\ \A i \in 1..Len(all_pmcids) : all_pmcids[i] \in at_start.cached)
        => merged' = merged

C12_RerunIdempotent ==
    /\ []C12_NoRequestForCached
    /\ [][C12_SameRows /\ C12_SameMerged]_vars

\* A run that repeated the two-identifier list of the run before it, found
\* both identifiers cached and wrote a merged file with rows.
C12_Witness ==
    /\ pc = "done"
    /\ at_start.rerun
    /\ Len(all_pmcids) = 2
    /\ \A i \in 1..2 : all_pmcids[i] \in at_start.cached
    /\ merged.rows # <<>>

\* The stage of the identifier in process: 1 its article is pending, 2 the
\* article is fetched and the tables are being fetched, 3 the tables are
\* fetched and the extraction runs; 0 between two identifiers.
StageNo ==
    CASE pc \in {"art", "art_get", "art_open", "art_write"} -> 1
      [] pc \in {"tabs", "tab_loop", "tab_get", "tab_open", "tab_write"} -> 2
      [] pc = "coords" -> 3
      [] OTHER -> 0

\* C13: an identifier goes through its stages in order only (pending,
\* article fetched, tables fetched, extracted and done) and a failure at
\* any stage is final for the run: the table stage runs only with the
\* article file on disk, the extraction starts only in the step after the
\* mapping file of the identifier was written by this run, a step that
\* raises moves the loop past the identifier for good and writes no
\* per-article coordinates file, and such a file is written only by the
\* step that ends the identifier as a success.
C13_ArticleBeforeTables ==
    StageNo >= 2 => Exists(article[pmcid])

C13_MappingBeforeExtraction ==
    pc = "coords" => table_ids_json[pmcid].ex

C13_StagesInOrder ==
    /\ (StageNo = 0 /\ pc' # pc) => StageNo' \in {0, 1}
    /\ (StageNo > 0 /\ StageNo' > 0)
          => pmcid_idx' = pmcid_idx /\ StageNo' \in {StageNo, StageNo + 1}
    /\ (StageNo > 0 /\ StageNo' = 0)
          => \/ pc' = "interrupted"
             \/ /\ pc' = "loop"
                /\ pmcid_idx' = pmcid_idx + 1
                /\ \/ outcome' = Append(outcome, "failed")
                   \/ StageNo = 3 /\ outcome' = Append(outcome, "ok")
    /\ (StageNo # 3 /\ StageNo' = 3)
          => /\ pc = "tab_loop"
             /\ table_ids_json'[pmcid] = [ex |-> TRUE, info |-> id_info]

C13_FailedIsFinal ==
    /\ (~AtRest /\ pc' # "interrupted")
          => /\ all_pmcids' = all_pmcids
             /\ pmcid_idx' >= pmcid_idx
             /\ outcome' \in {outcome, Append(outcome, "ok"),
                               Append(outcome, "failed")}
    /\ outcome' = Append(outcome, "failed")
          => pmcid_idx' = pmcid_idx + 1 /\ coords' = coords
    /\ \A p \in PMCIDs : coords'[p] # coords[p]
          => /\ StageNo = 3
             /\ p = pmcid
             /\ outcome' = Append(outcome, "ok")

C13_StageOrder ==
    /\ [](C13_ArticleBeforeTables /\ C13_MappingBeforeExtraction)
    /\ [][C13_StagesInOrder /\ C13_FailedIsFinal]_vars

\* The first identifier failed in its table stage, with its article file on
\* disk and no coordinates file, and the second one is being extracted.
C13_Witness ==
    /\ pc = "coords"
    /\ pmcid_idx = 2
    /\ outcome = <<"failed">>
    /\ Exists(article[all_pmcids[1]])
    /\ ~coords[all_pmcids[1]].ex

\* The table files of identifier p whose page holds a coordinate table.
Detected(p) ==
    {n \in Names : tables[p][n].ex = "full" /\ tables[p][n].rows > 0}

\* The coordinate triples of the pages of Detected(p).
DetectedTriples(p) ==
    UNION {{<<tables[p][n].tid, k>> : k \in 1..tables[p][n].rows} :
           n \in Detected(p)}

\* C14: a table file whose parsing or coordinate detection fails gives no
\* row and does not fail the article: the per-article dataset that
\* _get_coordinates writes holds exactly the rows of the tables whose
\* detection succeeded, each once, wherever the failing tables come in the
\* iteration, and the identifier ends as a success with the error counter
\* unchanged.
C14_Step ==
    pc = "coords" =>
        LET rows == coords'[pmcid].rows
        IN /\ outcome' = Append(outcome, "ok")
           /\ n_errors' = n_errors
           /\ coords'[pmcid].ex
           /\ {rows[i].xyz : i \in 1..Len(rows)} = DetectedTriples(pmcid)
           /\ Len(rows) = Cardinality(DetectedTriples(pmcid))
           /\ \A i \in 1..Len(rows) : rows[i].pmcid = pmcid

C14_FailingTableSkipped == [][C14_Step]_vars

\* The first table file of the iteration yielded nothing, the second one
\* yielded its row, and the identifier ended as a success.
C14_Witness ==
    /\ pc = "loop"
    /\ outcome = <<"ok">>
    /\ tables[all_pmcids[1]][NameOrder[1]].ex = "full"
    /\ tables[all_pmcids[1]][NameOrder[1]].rows = 0
    /\ tables[all_pmcids[1]][NameOrder[2]].rows = 1
    /\ Len(coords[all_pmcids[1]].rows) = 1

\* The step is a call of session.get: it returns a response or raises.
RequestStep == pc \in {"art_get", "tab_get"} /\ pc' # pc

\* The step finds the destination file of the article or of a table.
CacheHitStep ==
    \/ pc = "art" /\ is_file(article[pmcid])
    \/ /\ pc = "tab_loop"
       /\ tix <= Len(all_table_ids)
       /\ is_file(tables[pmcid][table_name])

\* C15: every network request comes directly after a politeness delay of
\* its own (the last network event before a request is a _sleep() and never
\* another request, and a _sleep() is always followed by its request), so
\* there is a delay between any two requests in a row; one request at most
\* is under way at any time; a cache hit causes neither delay nor request.
C15_SleepThenRequest ==
    last_net = "sleep" <=> pc \in {"art_get", "tab_get"}

C15_Step ==
    /\ RequestStep => last_net = "sleep" /\ last_net' = "request"
    /\ run_requests' # run_requests
          => RequestStep \/ run_requests' = NoRequests
    /\ CacheHitStep
          => /\ last_net' = last_net
             /\ run_requests' = run_requests
             /\ pc' \notin {"art_get", "tab_get"}

C15_DelayBeforeEveryRequest ==
    /\ []C15_SleepThenRequest
    /\ [][C15_Step]_vars

\* The delay of a table request, after the article request of the same
\* identifier.
C15_Witness ==
    /\ pc = "tab_get"
    /\ last_net = "sleep"
    /\ run_requests[pmcid]["article"] = 1

\* C16: there is no automatic retry: within one run (over distinct
\* identifiers) a destination path gets one network request at most; a
\* request that fails ends its identifier as failed, counted once, and the
\* loop goes on; and a request, in this run or a later one, is sent only
\* for a destination file that is missing.
C16_OneRequestPerPath ==
    \A p \in PMCIDs : \A n \in Paths : run_requests[p][n] <= 1

C16_Step ==
    /\ (RequestStep /\ pc' \notin {"art_open", "tab_open"})
          => /\ pc' = "loop"
             /\ outcome' = Append(outcome, "failed")
             /\ n_errors' = n_errors + 1
             /\ pmcid_idx' = pmcid_idx + 1
    /\ (RequestStep /\ pc = "art_get") => ~Exists(article[pmcid])
    /\ (RequestStep /\ pc = "tab_get")
          => ~Exists(tables[pmcid][table_name])

C16_NoRetry ==
    /\ []C16_OneRequestPerPath
    /\ [][C16_Step]_vars

\* A table request of the first identifier failed, its file is still
\* missing, and the run is at the article request of the second one.
C16_Witness ==
    /\ pc = "art_get"
    /\ pmcid_idx = 2
    /\ outcome = <<"failed">>
    /\ \E n \in Names : /\ run_requests[all_pmcids[1]][n] = 1
                        /\ ~Exists(tables[all_pmcids[1]][n])

\* C17: every network call is bounded by a finite timeout, so a run always
\* goes on to its end: at every point of a run that is not over, also
\* after a request the host never answers, a step of the program can be
\* taken (the fetch fails, the identifier is counted as failed and the loop
\* goes on).
C17_RunNeverBlocks == AtRest \/ ENABLED NextHang

\* The artifacts of identifier q are left as they are by the step.
ArtifactsUnchanged(q) ==
    /\ article'[q] = article[q]
    /\ tables_dir'[q] = tables_dir[q]
    /\ tables'[q] = tables[q]
    /\ table_ids_json'[q] = table_ids_json[q]
    /\ coords'[q] = coords[q]

\* C18: processing identifier i writes only the artifacts of i: every step
\* of every stage run for i leaves the article file, the tables directory,
\* the table files, the mapping file and the coordinates file of every
\* other identifier unchanged, and a step outside _process_pmcid changes
\* the artifacts of no identifier.
C18_Step ==
    \A q \in PMCIDs : (~InProcess \/ q # pmcid) => ArtifactsUnchanged(q)

C18_OnlyOwnArtifacts == [][C18_Step]_vars

\* A table file of the second identifier has just been created while the
\* first identifier has its article file, a table file and its coordinates
\* file on disk.
C18_Witness ==
    /\ pc = "tab_write"
    /\ pmcid_idx = 2
    /\ article[all_pmcids[1]].ex = "full"
    /\ \E n \in Names : tables[all_pmcids[1]][n].ex = "full"
    /\ coords[all_pmcids[1]].ex

\* C19: an identifier none of whose tables yields coordinates (it has no
\* table, or every detection fails) is a success: _get_coordinates writes a
\* per-article dataset of zero rows, the error counter stays as it is, the
\* file joins the files to merge, and in the merged file the identifier
\* has no row.
C19_ZeroRowSuccess ==
    (pc = "coords" /\ Detected(pmcid) = {})
        => /\ coords'[pmcid] = [ex |-> TRUE, rows |-> <<>>]
           /\ n_errors' = n_errors
           /\ outcome' = Append(outcome, "ok")
           /\ all_coords_files' = Append(all_coords_files, pmcid)

C19_ZeroRowsMerged ==
    (pc = "loop" /\ pc' = "done")
        => /\ merged'.ex
           /\ \A i \in 1..Len(all_coords_files) :
                 coords[all_coords_files[i]].rows = <<>>
                   => \A j \in 1..Len(merged'.rows) :
                         merged'.rows[j].pmcid # all_coords_files[i]
           /\ (\A i \in 1..Len(all_coords_files) :
                  coords[all_coords_files[i]].rows = <<>>)
                   => merged'.rows = <<>>

C19_NoCoordinatesIsSuccess ==
    [][C19_ZeroRowSuccess /\ C19_ZeroRowsMerged]_vars

\* A run over an article without tables and an article whose only table
\* has no coordinates: both ended as successes and the merged file was
\* written with no row.
C19_Witness ==
    /\ pc = "done"
    /\ outcome = <<"ok", "ok">>
    /\ n_errors = 0
    /\ \E p \in PMCIDs, q \in PMCIDs :
          /\ article[p] = [ex |-> "full", ids |-> <<>>]
          /\ article[q] = [ex |-> "full", ids |-> <<"T1">>]
          /\ tables[q]["ce499d"].ex = "full"
          /\ coords[p] = [ex |-> TRUE, rows |-> <<>>]
          /\ coords[q] = [ex |-> TRUE, rows |-> <<>>]
    /\ merged = [ex |-> TRUE, rows |-> <<>>]

\* The run is over, every identifier of its list ended as a success and no
\* network request was sent.
AllCachedRun ==
    /\ pc \in {"done", "merge_error"}
    /\ Len(outcome) = Len(all_pmcids)
    /\ \A i \in 1..Len(outcome) : outcome[i] = "ok"
    /\ run_requests = NoRequests

\* C20: across repeated runs on one list and one directory the set of
\* cached article and table files never shrinks; an identifier that has
\* succeeded in a run (its coordinates file is on disk) does not fail in a
\* later run; and, when a request that is sent in infinitely many runs is
\* answered in one of them, a run is reached in which every identifier
\* succeeds with no network request, and every run after it is such a run.
C20_CacheNeverShrinks ==
    \A p \in PMCIDs :
        /\ Exists(article[p]) => Exists(article'[p])
        /\ \A n \in Names : Exists(tables[p][n]) => Exists(tables'[p][n])

C20_SuccessIsKept ==
    (InProcess /\ coords[pmcid].ex) => outcome' # Append(outcome, "failed")

====
